---- MODULE Spec2Model ----
(***************************************************************************)
(* Model of the PDF layout engine of src/app.py (ReportApp.export_pdf):    *)
(* the word wrapper, the offset-indexed rich-text wrapper, the row-height  *)
(* calculator, the table paginator and the rich-text paginator.            *)
(*                                                                         *)
(* Text is a sequence of one-character strings; offsets are 0-based as in  *)
(* the source, so the character at offset k of t is t[k + 1].              *)
(* Lengths are integers in units of 0.01 inch (line_h = 0.16 in = 16).     *)
(* Every length of the source is a multiple of 0.01 inch, so the sums and   *)
(* comparisons of the pagination are exact.                                *)
(* Text widths are integers in advance-width units: stringWidth is the sum *)
(* of the per-character advance widths.                                    *)
(* The page height is an input of the model: the LETTER page holds 16 rows *)
(* and 41 lines, so smaller heights stand for it where a page break has to *)
(* happen with a few rows or lines.  The column and card widths are given  *)
(* in advance units.                                                       *)
(***************************************************************************)
EXTENDS Integers, Sequences, FiniteSets, TLC

\* ------------------------------------------------------------------------
\* Bounds of the model
\* ------------------------------------------------------------------------
MaxLen == 4

MaxWidth == 3

MaxRows == 3

\* the largest number of rows of a day of equal rows
MaxEqualRows == 5

\* the largest number of calls of register_unicode_fonts in one run of the program
MaxCalls == 3

\* ------------------------------------------------------------------------
\* Characters and metrics
\* ------------------------------------------------------------------------
Chars == {"a", "W", " ", "\n", "\t"}

\* the characters of the rich texts
RichChars == {"a", "W", " ", "\n"}

\* str.strip() removes every leading and trailing whitespace character
Whitespace == {" ", "\n", "\t"}

Texts == UNION {[1..n -> Chars] : n \in 0..MaxLen}

RichTexts ==
    UNION {[1..n -> RichChars] : n \in 0..MaxLen}
    \cup {<<"\t">>, <<" ", "\t">>, <<"a", "\t", "a">>}

\* the advance width of one character: "W" is a wide glyph
CharWidth(ch) == IF ch = "W" THEN 2 ELSE 1

RECURSIVE stringWidth(_)
\* pdf_canvas.stringWidth: the sum of the advance widths of the characters
stringWidth(s) == IF s = <<>> THEN 0 ELSE CharWidth(Head(s)) + stringWidth(Tail(s))

\* ------------------------------------------------------------------------
\* Python string helpers
\* ------------------------------------------------------------------------
RECURSIVE lstrip(_)
lstrip(s) == IF s # <<>> /\ Head(s) \in Whitespace THEN lstrip(Tail(s)) ELSE s

RECURSIVE rstrip(_)
rstrip(s) ==
    IF s # <<>> /\ s[Len(s)] \in Whitespace THEN rstrip(SubSeq(s, 1, Len(s) - 1)) ELSE s

strip(s) == rstrip(lstrip(s))

\* s.replace("\t", " ")
replace_tabs(s) == [k \in 1..Len(s) |-> IF s[k] = "\t" THEN " " ELSE s[k]]

RECURSIVE split_from(_, _, _, _)
\* s.split(" ") scanning from position k with the current token tok
split_from(s, k, tok, acc) ==
    IF k > Len(s) THEN Append(acc, tok)
    ELSE IF s[k] = " " THEN split_from(s, k + 1, <<>>, Append(acc, tok))
    ELSE split_from(s, k + 1, Append(tok, s[k]), acc)

split(s) == split_from(s, 1, <<>>, <<>>)

\* ------------------------------------------------------------------------
\* wrap_lines (the word wrapper)
\* ------------------------------------------------------------------------
\* the state of wrap_lines is the pair (lines, cur)
flush(st) ==
    [lines |-> IF strip(st.cur) # <<>> THEN Append(st.lines, strip(st.cur)) ELSE st.lines,
     cur |-> <<>>]

RECURSIVE char_split_DropChar(_, _, _, _, _)
\* faulty variant: the character that starts a new chunk is lost
char_split_DropChar(tok, max_width, k, buf, lines) ==
    IF k > Len(tok)
    THEN IF buf # <<>> THEN Append(lines, buf) ELSE lines
    ELSE LET candidate == Append(buf, tok[k])
         IN  IF stringWidth(candidate) <= max_width
             THEN char_split_DropChar(tok, max_width, k + 1, candidate, lines)
             ELSE char_split_DropChar(tok, max_width, k + 1, <<>>,
                                      IF buf # <<>> THEN Append(lines, buf) ELSE lines)

RECURSIVE char_split(_, _, _, _, _)
\* the loop "for ch in tok" of add_token and the final "if buf"
char_split(tok, max_width, k, buf, lines) ==
    IF k > Len(tok)
    THEN IF buf # <<>> THEN Append(lines, buf) ELSE lines
    ELSE LET candidate == Append(buf, tok[k])
         IN  IF stringWidth(candidate) <= max_width
             THEN char_split(tok, max_width, k + 1, candidate, lines)
             ELSE char_split(tok, max_width, k + 1, <<tok[k]>>,
                             IF buf # <<>> THEN Append(lines, buf) ELSE lines)

\* faulty variant: an oversized token is never cut by characters
add_token_NoCut(st, tok, max_width) ==
    LET test == strip(st.cur \o <<" ">> \o tok)
    IN  IF stringWidth(test) <= max_width
        THEN [st EXCEPT !.cur = test]
        ELSE [(IF st.cur # <<>> THEN flush(st) ELSE st) EXCEPT !.cur = tok]

\* add_token: extend cur, or flush it and start with tok, or cut tok by characters
add_token(st, tok, max_width) ==
    LET test == strip(st.cur \o <<" ">> \o tok)
    IN  IF stringWidth(test) <= max_width
        THEN [st EXCEPT !.cur = test]
        ELSE LET st1 == IF st.cur # <<>> THEN flush(st) ELSE st
             IN  IF stringWidth(tok) <= max_width
                 THEN [st1 EXCEPT !.cur = tok]
                 ELSE [st1 EXCEPT !.lines = char_split(tok, max_width, 1, <<>>, st1.lines)]

RECURSIVE add_words(_, _, _, _)
\* the loop "for w in words": empty tokens are skipped
add_words(words, k, st, max_width) ==
    IF k > Len(words) THEN st
    ELSE add_words(words, k + 1,
                   IF words[k] = <<>> THEN st ELSE add_token(st, words[k], max_width),
                   max_width)

\* None, the value of a missing text: a one-element sequence that is no text
None == <<"None">>

\* faulty variant: str(text), which turns None into the text "None"
str_or_empty_NoDefault(v) == IF v = None THEN <<"N", "o", "n", "e">> ELSE v

\* str(text or ""): None and the empty string give the empty string
str_or_empty(v) == IF v = None \/ v = <<>> THEN <<>> ELSE v

wrap_lines(text, max_width) ==
    LET s == strip(replace_tabs(str_or_empty(text)))
    IN  IF s = <<>> THEN << <<>> >>
        ELSE LET st == flush(add_words(split(s), 1, [lines |-> <<>>, cur |-> <<>>], max_width))
             IN  IF st.lines # <<>> THEN st.lines ELSE << <<>> >>

\* ------------------------------------------------------------------------
\* wrap_text_with_offsets (the offset-indexed rich-text wrapper)
\* ------------------------------------------------------------------------
RECURSIVE find_nl(_, _)
\* text.find("\n", k): the offset of the first paragraph break at or after k, or -1
find_nl(text, k) ==
    IF k >= Len(text) THEN -1
    ELSE IF text[k + 1] = "\n" THEN k
    ELSE find_nl(text, k + 1)

RECURSIVE scan(_, _, _, _, _)
\* the loop "while i < len(para)": last_space is updated before the width test
scan(para, max_w, i, best_cut, last_space) ==
    IF i < Len(para)
    THEN LET ls == IF para[i + 1] = " " THEN i ELSE last_space
             candidate == SubSeq(para, 1, i + 1)
         IN  IF stringWidth(candidate) <= max_w
             THEN scan(para, max_w, i + 1, i + 1, ls)
             ELSE [best_cut |-> best_cut, last_space |-> ls]
    ELSE [best_cut |-> best_cut, last_space |-> last_space]

RECURSIVE skip_spaces(_, _, _)
\* the loop "while next_off < para_end and text[next_off] == ' '"
skip_spaces(text, next_off, para_end) ==
    IF next_off < para_end /\ text[next_off + 1] = " "
    THEN skip_spaces(text, next_off + 1, para_end)
    ELSE next_off

\* faulty variant: the start offset reported is the one after the break
blank_line_Shifted(start_offset) ==
    [none |-> FALSE, line |-> <<>>, line_start |-> start_offset + 1,
     next_off |-> start_offset + 1]

\* a paragraph break at start_offset: return "", start_offset, start_offset + 1
blank_line(start_offset) ==
    [none |-> FALSE, line |-> <<>>, line_start |-> start_offset,
     next_off |-> start_offset + 1]

\* faulty variant: the leading whitespace of the paragraph is stripped
paragraph_Stripped(text, start_offset, para_end) ==
    lstrip(SubSeq(text, start_offset + 1, para_end))

\* para = text[start_offset:para_end]
paragraph(text, start_offset, para_end) == SubSeq(text, start_offset + 1, para_end)

\* faulty variant: the line keeps the space it is broken at
break_line_KeepSpace(para, last_space) == SubSeq(para, 1, last_space + 1)

\* line = para[:last_space]
break_line(para, last_space) == SubSeq(para, 1, last_space)

\* faulty variant: the spaces that follow the break are not skipped
break_next_off_NoSkip(text, start_offset, last_space, para_end) ==
    start_offset + last_space + 1

\* next_off = start_offset + last_space + 1, then the spaces that follow are skipped
break_next_off(text, start_offset, last_space, para_end) ==
    skip_spaces(text, start_offset + last_space + 1, para_end)

\* faulty variant: no minimum of one character
cut_len_NoMin(best_cut) == best_cut

\* cut = max(1, best_cut)
cut_len(best_cut) == IF best_cut > 1 THEN best_cut ELSE 1

\* faulty variant: the character that follows a cut is skipped
cut_next_off_SkipOne(start_offset, cut) == start_offset + cut + 1

\* next_off = start_offset + cut
cut_next_off(start_offset, cut) == start_offset + cut

\* the result (line, line_start, next_off); none marks the result (None, None, n)
wrap_text_with_offsets(text, start_offset, max_w) ==
    LET n == Len(text)
    IN  IF start_offset >= n
        THEN [none |-> TRUE, line |-> <<>>, line_start |-> -1, next_off |-> n]
        ELSE IF text[start_offset + 1] = "\n"
        THEN blank_line(start_offset)
        ELSE
          LET nl == find_nl(text, start_offset)
              para_end == IF nl = -1 THEN n ELSE nl
              para == paragraph(text, start_offset, para_end)
              sc == scan(para, max_w, 0, 0, -1)
              best_cut == sc.best_cut
              last_space == sc.last_space
          IN  IF best_cut = Len(para)
              THEN [none |-> FALSE, line |-> para, line_start |-> start_offset,
                    next_off |-> IF nl # -1 THEN para_end + 1 ELSE para_end]
              ELSE IF last_space > 0
              THEN [none |-> FALSE, line |-> break_line(para, last_space),
                    line_start |-> start_offset,
                    next_off |-> break_next_off(text, start_offset, last_space, para_end)]
              ELSE LET cut == cut_len(best_cut)
                   IN  [none |-> FALSE, line |-> SubSeq(para, 1, cut),
                        line_start |-> start_offset,
                        next_off |-> cut_next_off(start_offset, cut)]

\* ------------------------------------------------------------------------
\* Rich-text page geometry and the line loop of render_report_pages
\* ------------------------------------------------------------------------
\* lh = 0.20 * inch
lh == 20

\* card_h = height - 2.2 * inch; max_h = card_h - 0.55 * inch
max_h(height) == (height - 220) - 55

\* faulty variant: a line that exactly fills the page is refused
page_has_room_Strict(used, height) == used + lh < max_h(height)

\* the guard "used + lh <= max_h" of the line loop
page_has_room(used, height) == used + lh <= max_h(height)

RECURSIVE fill_page(_, _, _, _, _, _)
\* the loop "while start_off < len(text) and used + lh <= max_h"; every call of
\* the wrapper is recorded with the offset it was called with
fill_page(text, max_w, height, start_off, used, lines) ==
    IF start_off < Len(text) /\ page_has_room(used, height)
    THEN LET r == wrap_text_with_offsets(text, start_off, max_w)
         IN  IF r.none
             THEN [start_off |-> r.next_off, used |-> used, lines |-> lines]
             ELSE fill_page(text, max_w, height, r.next_off, used + lh,
                            Append(lines, [off |-> start_off, line |-> r.line,
                                           line_start |-> r.line_start,
                                           next_off |-> r.next_off]))
    ELSE [start_off |-> start_off, used |-> used, lines |-> lines]

\* faulty variant: only the empty text is blank
text_is_blank_EmptyOnly(text) == text = <<>>

\* "if not text.strip()"
text_is_blank(text) == strip(text) = <<>>

\* "Reporte" if pn == 1 else "Reporte (cont. pn)"
report_title(pn) == IF pn = 1 THEN <<"Reporte">> ELSE <<"Reporte", "cont.", pn>>

\* ------------------------------------------------------------------------
\* Table geometry, compute_row_height and the chunk construction
\* ------------------------------------------------------------------------
\* th = 0.42 * inch
th == 42

\* pad_y_cell = 0.10 * inch
pad_y_cell == 10

\* line_h = 0.16 * inch
line_h == 16

\* badge_h = 0.28 * inch
badge_h == 28

\* the literal 0.46 * inch of compute_row_height
row_floor == 46

\* col_widths[k] - 2 * pad_x of the text columns TARJETA, FILES, PESO, DESGLOSE
\* and COMENTARIOS (units 2.15, 1.35, 0.95, 1.70, 1.80), in advance units
cell_width == [tarjeta |-> 4, files |-> 2, peso |-> 1, desglose |-> 3, comentarios |-> 3]

RECURSIVE basename(_)
\* os.path.basename: what follows the last "/"
basename(path) ==
    IF \E k \in 1..Len(path) : path[k] = "/"
    THEN basename(Tail(path))
    ELSE path

Max2(a, b) == IF a >= b THEN a ELSE b

\* faulty variant: the padding is counted once
h_text_OnePad(max_lines) == max_lines * line_h + pad_y_cell

\* h_text = max_lines * line_h + 2 * pad_y_cell
h_text(max_lines) == max_lines * line_h + 2 * pad_y_cell

\* faulty variant: the badge without its padding
h_badge_min_NoPad == badge_h

\* h_badge_min = badge_h + 2 * pad_y_cell
h_badge_min == badge_h + 2 * pad_y_cell

compute_row_height(row_dict) ==
    LET files_name == IF row_dict.files_path # <<>> THEN basename(row_dict.files_path) ELSE <<>>
        lines_tarjeta == wrap_lines(row_dict.tarjeta, cell_width.tarjeta)
        lines_files == wrap_lines(files_name, cell_width.files)
        lines_peso == wrap_lines(row_dict.peso, cell_width.peso)
        lines_desg == wrap_lines(row_dict.desglose, cell_width.desglose)
        lines_com == wrap_lines(row_dict.comentarios, cell_width.comentarios)
        max_lines == Max2(Len(lines_tarjeta), Max2(Len(lines_files), Max2(Len(lines_peso),
                         Max2(Len(lines_desg), Max2(Len(lines_com), 1)))))
    IN  Max2(h_text(max_lines), Max2(h_badge_min, row_floor))

\* table_top = height - 1.65 * inch; y_cursor = table_top - th - 0.15 * inch;
\* bottom_margin = 0.9 * inch; available = y_cursor - bottom_margin
available(height) == ((height - 165) - th - 15) - 90

\* faulty variant: the height of the row to add is not counted
page_full_Late(used, rh, avail, chunk) == used > avail /\ chunk # <<>>

\* faulty variant: the page also breaks before a row that would be its first
page_full_AlsoEmpty(used, rh, avail, chunk) == used + rh > avail

\* faulty variant: the height of the row to add is counted twice
page_full_Eager(used, rh, avail, chunk) == used + rh + rh > avail /\ chunk # <<>>

\* "if used + rh > available and chunk: break"
page_full(used, rh, avail, chunk) == used + rh > avail /\ chunk # <<>>

\* "if rh > available and not chunk": the oversized row goes alone
oversized_alone(rh, avail, chunk) == rh > avail /\ chunk = <<>>

\* faulty variant: the cursor advances by one row per page
next_row_i_Fixed(row_i0, chunk) == row_i0 + 1

\* row_i += len(chunk)
next_row_i(row_i0, chunk) == row_i0 + Len(chunk)

RECURSIVE build_chunk(_, _, _, _, _, _)
\* the loop "while temp_i < total_rows" that builds chunk and chunk_heights; the
\* chunk holds the positions (0-based) of its rows in rows_data
build_chunk(rows_data, avail, temp_i, used, chunk, chunk_heights) ==
    IF temp_i < Len(rows_data)
    THEN LET rh == compute_row_height(rows_data[temp_i + 1])
         IN  IF page_full(used, rh, avail, chunk)
             THEN [chunk |-> chunk, chunk_heights |-> chunk_heights, used |-> used]
             ELSE IF oversized_alone(rh, avail, chunk)
             THEN [chunk |-> Append(chunk, temp_i),
                   chunk_heights |-> Append(chunk_heights, rh), used |-> used]
             ELSE build_chunk(rows_data, avail, temp_i + 1, used + rh,
                              Append(chunk, temp_i), Append(chunk_heights, rh))
    ELSE [chunk |-> chunk, chunk_heights |-> chunk_heights, used |-> used]

\* faulty variant: every continued page has the title of the second page
day_title_NoCounter(dia_nombre, page_idx) ==
    IF page_idx = 0 THEN <<dia_nombre>> ELSE <<dia_nombre, "cont.">>

\* the title of page page_idx of a day
day_title(dia_nombre, page_idx) ==
    IF page_idx = 0 THEN <<dia_nombre>>
    ELSE IF page_idx = 1 THEN <<dia_nombre, "cont.">>
    ELSE <<dia_nombre, "cont.", page_idx>>

\* ------------------------------------------------------------------------
\* Inputs
\* ------------------------------------------------------------------------
EmptyRow ==
    [tarjeta |-> <<>>, files_path |-> <<>>, peso |-> <<>>, desglose |-> <<>>,
     comentarios |-> <<>>]

\* a row whose PESO cell wraps to three lines
ThreeLineRow ==
    [EmptyRow EXCEPT !.tarjeta = <<"a", " ", "W">>, !.files_path = <<"a", "/", "a">>,
                     !.peso = <<"a", " ", "a", " ", "a">>]

\* a row whose COMENTARIOS cell wraps to six lines
SixLineRow ==
    [EmptyRow EXCEPT !.comentarios = <<"W", "W", " ", "W", "W", " ", "W", "W">>]

RowSamples == {EmptyRow, ThreeLineRow, SixLineRow}

Rows == UNION {[1..n -> RowSamples] : n \in 0..MaxRows}

Day(rows) == [nombre |-> "Dia", rows |-> rows]

\* no day, one day of up to MaxRows rows, or two days of at most one row each
\* days of n equal rows
EqualRows == {[j \in 1..n |-> r] : n \in 1..MaxEqualRows, r \in RowSamples}

DiasSet ==
    {<<>>} \cup {<<Day(r)>> : r \in Rows \cup EqualRows}
           \cup {<<Day(r1), Day(r2)>> : r1, r2 \in {r \in Rows : Len(r) <= 1}}

SampleDias == <<Day(<<EmptyRow, EmptyRow, ThreeLineRow>>)>>

\* eight lines: "a", six blank lines, "a"
SampleText == <<"a", "\n", "\n", "\n", "\n", "\n", "\n", "\n", "a">>

\* The page height: LETTER is 11 in = 1100. The smaller heights scale the page
\* down so that page breaks happen with a few rows and a few lines:
\*   295: every row is oversized, one line per rich-text page
\*   315: every row is oversized, two lines per rich-text page
\*   420: two one-line rows per page, seven lines per rich-text page
TableHeights == {315, 420, 1100}

RichHeights == {295, 315, 1100}

\* a page too short for one line of rich text (max_h < lh)
ShortHeights == {290}

\* the days vary with a sample text, or the text varies with sample days
InputCases(heights) ==
    {[dias |-> ds, text |-> SampleText, max_w |-> 2, height |-> h] :
        ds \in DiasSet, h \in TableHeights}
    \cup
    {[dias |-> SampleDias, text |-> t, max_w |-> w, height |-> h] :
        t \in RichTexts, w \in 1..MaxWidth, h \in heights}

\* ------------------------------------------------------------------------
\* State
\* ------------------------------------------------------------------------
VARIABLES
    wl_text,        \* wrap_lines: the text argument
    wl_max_width,   \* wrap_lines: the max_width argument
    wl_lines,       \* wrap_lines: the returned lines
    wl_pc,          \* wrap_lines: "call" before the call, "ret" after it returned
    rl_line,        \* draw_rich_line: the line_text argument
    rl_start,       \* draw_rich_line: the line_start_offset argument
    bold_ranges,    \* payload["bold_ranges"]: a list of intervals <<start, end>>
    italic_ranges,  \* payload["italic_ranges"]: a list of intervals <<start, end>>
    rl_runs,        \* draw_rich_line: the runs drawn, each with its style
    rl_pc,          \* draw_rich_line: "call" before the call, "ret" after it returned
    rh_row,         \* compute_row_height: the row_dict argument
    rh_height,      \* compute_row_height: the returned height
    rh_pc,          \* compute_row_height: "call" before the call, "ret" after it returned
    ds_site,        \* the place of export_pdf that draws or measures a string
    ds_text,        \* the string drawn or measured there
    ds_out,         \* the string that reached the page
    ds_failed,      \* drawString or stringWidth raised on the string
    ds_pc,          \* "call" before the string is drawn, then "drawn" or "raised"
    rec_ctx,        \* how the record is read: "new", "open" or "export"
    rec_in,         \* the input record: each field with its value, or absent
    rec_out,        \* the value read for each field
    rec_pc,         \* "call" before the record is read, "ret" after
    font_files,     \* the font files that exist in FONTS_DIR
    registered,     \* the names of the extended family registered with pdfmetrics
    font_ret,       \* what the last call of register_unicode_fonts returned
    font_calls,     \* the number of calls of register_unicode_fonts so far
    font_sel,       \* the font the rich-text section selected last
    current_path,   \* ReportApp.current_path: "None" or a path
    report_data,    \* ReportApp.report_data: the version of the report it holds
    edited,         \* the version of the report in the editor
    written,        \* the paths a report was written to
    save_ret,       \* what the last call of save_report returned
    prev_path,      \* current_path before the last call of save_report
    prev_data,      \* report_data before the last call of on_save
    dias,           \* data["dias"]: the days, each with its rows
    text,           \* payload["text"] of the rich-text section
    max_w,          \* the text width of the rich-text card, in advance units
    height,         \* the page height
    pc,             \* the position of export_pdf
    d,              \* the position in dias of the day of the loop "for d in dias"
    page_idx,       \* page_idx of the current day
    row_i,          \* row_i of the current day
    start_off,      \* start_off of render_report_pages
    page_num,       \* page_num of render_report_pages
    pages,          \* the pages emitted with showPage, in order
    saved,          \* c.save() was performed
    notice          \* the message boxes shown

vars == <<wl_text, wl_max_width, wl_lines, wl_pc, rl_line, rl_start, bold_ranges,
          italic_ranges, rl_runs, rl_pc, rh_row, rh_height, rh_pc, ds_site, ds_text,
          ds_out, ds_failed, ds_pc, rec_ctx, rec_in, rec_out, rec_pc, font_files,
          registered, font_ret, font_calls, font_sel, current_path, report_data,
          edited, written, save_ret, prev_path, prev_data, dias, text, max_w, height, pc, d,
          page_idx, row_i, start_off, page_num, pages, saved, notice>>

wl_vars == <<wl_text, wl_max_width, wl_lines, wl_pc>>

rl_vars == <<rl_line, rl_start, bold_ranges, italic_ranges, rl_runs, rl_pc>>

rh_vars == <<rh_row, rh_height, rh_pc>>

ds_vars == <<ds_site, ds_text, ds_out, ds_failed, ds_pc>>

rec_vars == <<rec_ctx, rec_in, rec_out, rec_pc>>

font_vars == <<font_files, registered, font_ret, font_calls, font_sel>>

save_vars == <<current_path, report_data, edited, written, save_ret, prev_path, prev_data>>

extra_vars == <<ds_vars, rec_vars, font_vars, save_vars>>

fn_vars == <<wl_vars, rl_vars, rh_vars, extra_vars>>

in_vars == <<dias, text, max_w, height>>

ex_vars == <<pc, d, page_idx, row_i, start_off, page_num, pages, saved, notice>>

\* a page of the document
Page(kind, day, title, chunk, chunk_heights, used, lines, drawn) ==
    [kind |-> kind, day |-> day, title |-> title, chunk |-> chunk,
     chunk_heights |-> chunk_heights, used |-> used, lines |-> lines, drawn |-> drawn]

rows_data == dias[d].rows

total_rows == Len(rows_data)

\* ------------------------------------------------------------------------
\* export_pdf
\* ------------------------------------------------------------------------
ExportIdle ==
    /\ pc = "idle" /\ d = 0 /\ page_idx = 0 /\ row_i = 0 /\ start_off = 0
    /\ page_num = 0 /\ pages = <<>> /\ saved = FALSE /\ notice = <<>>

WrapIdle ==
    /\ wl_text = <<>> /\ wl_max_width = 1 /\ wl_lines = <<>> /\ wl_pc = "idle"

InputsIdle ==
    /\ dias = <<>> /\ text = <<>> /\ max_w = 1 /\ height = 1100

RunsIdle ==
    /\ rl_line = <<>> /\ rl_start = 0 /\ bold_ranges = <<>> /\ italic_ranges = <<>>
    /\ rl_runs = <<>> /\ rl_pc = "idle"

RowIdle ==
    /\ rh_row = EmptyRow /\ rh_height = 0 /\ rh_pc = "idle"

DrawIdle ==
    /\ ds_site = "none" /\ ds_text = <<>> /\ ds_out = <<>> /\ ds_failed = FALSE
    /\ ds_pc = "idle"

\* the fields of a report, of a day and of a row that are read with a default
Fields ==
    {"proyecto", "status_general", "prioridad", "nombre", "tarjeta", "backup_b",
     "backup_expo", "proxies"}

\* the mark of a field that the input record does not have
Absent == "<absent>"

NoRecord == [f \in Fields |-> Absent]

RecordIdle ==
    /\ rec_ctx = "none" /\ rec_in = NoRecord /\ rec_out = NoRecord /\ rec_pc = "idle"

FontsIdle ==
    /\ font_files = {} /\ registered = {} /\ font_ret = "none" /\ font_calls = 0
    /\ font_sel = "none"

\* ReportApp.__init__: no path, the default report, nothing saved
SaveIdle ==
    /\ current_path = "None" /\ report_data = 0 /\ edited = 0 /\ written = {}
    /\ save_ret = "idle" /\ prev_path = "None" /\ prev_data = 0

\* the calls modelled further down are not under way
ExtraIdle == DrawIdle /\ RecordIdle /\ FontsIdle /\ SaveIdle

ExportStart(heights) ==
    /\ \E c \in InputCases(heights) :
          /\ dias = c.dias /\ text = c.text /\ max_w = c.max_w /\ height = c.height
    /\ pc = "cover" /\ d = 0 /\ page_idx = 0 /\ row_i = 0 /\ start_off = 0
    /\ page_num = 0 /\ pages = <<>> /\ saved = FALSE /\ notice = <<>>
    /\ WrapIdle /\ RunsIdle /\ RowIdle /\ ExtraIdle

Init == ExportStart(RichHeights)

\* the cover page, then the loop over the days starts
CoverPage ==
    /\ pc = "cover"
    /\ pages' = Append(pages, Page("cover", 0, <<"RODAJE">>, <<>>, <<>>, 0, <<>>,
                                   <<"cover">>))
    /\ d' = 1
    /\ pc' = "day"
    /\ UNCHANGED <<page_idx, row_i, start_off, page_num, saved, notice>>
    /\ UNCHANGED <<fn_vars, in_vars>>

\* faulty variant: a day without rows is skipped without a page
EmptyDayPage_NoPage ==
    /\ pc = "day" /\ d <= Len(dias)
    /\ total_rows = 0
    /\ page_idx' = 0 /\ row_i' = 0
    /\ d' = d + 1
    /\ UNCHANGED <<pc, start_off, page_num, pages, saved, notice>>
    /\ UNCHANGED <<fn_vars, in_vars>>

\* a day without rows: one page with the placeholder "Sin filas."
EmptyDayPage ==
    /\ pc = "day" /\ d <= Len(dias)
    /\ total_rows = 0
    /\ pages' = Append(pages, Page("empty", d, day_title(dias[d].nombre, 0),
                                   <<>>, <<>>, 0, <<>>,
                                   <<"day_header", "table_header", "Sin filas.">>))
    /\ page_idx' = 0 /\ row_i' = 0
    /\ d' = d + 1
    /\ UNCHANGED <<pc, start_off, page_num, saved, notice>>
    /\ UNCHANGED <<fn_vars, in_vars>>

\* a day with rows enters the loop "while row_i < total_rows"
DayStart ==
    /\ pc = "day" /\ d <= Len(dias)
    /\ total_rows # 0
    /\ page_idx' = 0 /\ row_i' = 0
    /\ pc' = "rows"
    /\ UNCHANGED <<d, start_off, page_num, pages, saved, notice>>
    /\ UNCHANGED <<fn_vars, in_vars>>

\* one iteration of "while row_i < total_rows": one table page
DayPage ==
    /\ pc = "rows" /\ row_i < total_rows
    /\ page_idx <= total_rows    \* cuts off a loop that does not advance
    /\ LET b == build_chunk(rows_data, available(height), row_i, 0, <<>>, <<>>)
       IN  /\ pages' = Append(pages, Page("table", d, day_title(dias[d].nombre, page_idx),
                                          b.chunk, b.chunk_heights, b.used, <<>>,
                                          <<"day_header", "table_header", "rows",
                                            "footer">>))
           /\ row_i' = next_row_i(row_i, b.chunk)
           /\ page_idx' = page_idx + 1
    /\ UNCHANGED <<pc, d, start_off, page_num, saved, notice>>
    /\ UNCHANGED <<fn_vars, in_vars>>

\* the loop "while row_i < total_rows" ends; the next day
DayEnd ==
    /\ pc = "rows" /\ ~(row_i < total_rows)
    /\ d' = d + 1
    /\ pc' = "day"
    /\ UNCHANGED <<page_idx, row_i, start_off, page_num, pages, saved, notice>>
    /\ UNCHANGED <<fn_vars, in_vars>>

\* render_report_pages with a blank text: one page with "(sin texto)"
BlankReportPage ==
    /\ pc = "day" /\ d > Len(dias)
    /\ text_is_blank(text)
    /\ pages' = Append(pages, Page("blank", 0, report_title(1), <<>>, <<>>, 0, <<>>,
                                   <<"title", "card", "(sin texto)">>))
    /\ start_off' = 0 /\ page_num' = 1
    /\ pc' = "save"
    /\ UNCHANGED <<d, page_idx, row_i, saved, notice>>
    /\ UNCHANGED <<fn_vars, in_vars>>

\* render_report_pages with text enters the loop "while start_off < len(text)"
ReportStart ==
    /\ pc = "day" /\ d > Len(dias)
    /\ ~text_is_blank(text)
    /\ start_off' = 0 /\ page_num' = 1
    /\ pc' = "report"
    /\ UNCHANGED <<d, page_idx, row_i, pages, saved, notice>>
    /\ UNCHANGED <<fn_vars, in_vars>>

\* one iteration of "while start_off < len(text)": one rich-text page
ReportPage ==
    /\ pc = "report" /\ start_off < Len(text)
    /\ page_num <= Len(text) + 1    \* cuts off a loop that does not advance
    /\ LET f == fill_page(text, max_w, height, start_off, 0, <<>>)
       IN  /\ pages' = Append(pages, Page("report", 0, report_title(page_num),
                                          <<>>, <<>>, f.used, f.lines,
                                          <<"title", "card", "lines">>))
           /\ start_off' = f.start_off
           /\ page_num' = page_num + 1
    /\ UNCHANGED <<pc, d, page_idx, row_i, saved, notice>>
    /\ UNCHANGED <<fn_vars, in_vars>>

\* the loop "while start_off < len(text)" ends
ReportEnd ==
    /\ pc = "report" /\ ~(start_off < Len(text))
    /\ pc' = "save"
    /\ UNCHANGED <<d, page_idx, row_i, start_off, page_num, pages, saved, notice>>
    /\ UNCHANGED <<fn_vars, in_vars>>

\* faulty variant: c.save() also runs before the rich-text section is rendered
Save_BeforeReport ==
    /\ pc = "save" \/ (pc = "day" /\ d > Len(dias))
    /\ saved' = TRUE
    /\ notice' = Append(notice, "PDF exportado")
    /\ pc' = "done"
    /\ UNCHANGED <<d, page_idx, row_i, start_off, page_num, pages>>
    /\ UNCHANGED <<fn_vars, in_vars>>

\* c.save() and the message box "PDF exportado"
Save ==
    /\ pc = "save"
    /\ saved' = TRUE
    /\ notice' = Append(notice, "PDF exportado")
    /\ pc' = "done"
    /\ UNCHANGED <<d, page_idx, row_i, start_off, page_num, pages>>
    /\ UNCHANGED <<fn_vars, in_vars>>

\* faulty variant: the except clause saves what was rendered so far
ExportFails_SavesPartial ==
    /\ pc \in {"cover", "day", "rows", "report", "save"}
    /\ notice' = Append(notice, "Error")
    /\ saved' = TRUE
    /\ pc' = "failed"
    /\ UNCHANGED <<d, page_idx, row_i, start_off, page_num, pages>>
    /\ UNCHANGED <<fn_vars, in_vars>>

\* a step of the try block raises: the except clause shows the message box "Error"
ExportFails ==
    /\ pc \in {"cover", "day", "rows", "report", "save"}
    /\ notice' = Append(notice, "Error")
    /\ pc' = "failed"
    /\ UNCHANGED <<d, page_idx, row_i, start_off, page_num, pages, saved>>
    /\ UNCHANGED <<fn_vars, in_vars>>

Next ==
    \/ CoverPage
    \/ EmptyDayPage
    \/ DayStart
    \/ DayPage
    \/ DayEnd
    \/ BlankReportPage
    \/ ReportStart
    \/ ReportPage
    \/ ReportEnd
    \/ Save
    \/ ExportFails

Spec == Init /\ [][Next]_vars

\* the same export on pages of any height, also too short for one line of text
InitAnyHeight == ExportStart(RichHeights \cup ShortHeights)

SpecAnyHeight == InitAnyHeight /\ [][Next]_vars

\* ------------------------------------------------------------------------
\* Table pagination
\* ------------------------------------------------------------------------
\* the table pages of day k, in the order they were emitted
TablePagesOf(k) == SelectSeq(pages, LAMBDA p : p.kind = "table" /\ p.day = k)

RECURSIVE ShownRows(_)
\* the row positions on a sequence of table pages, read page after page
ShownRows(ps) == IF ps = <<>> THEN <<>> ELSE Head(ps).chunk \o ShownRows(Tail(ps))

RECURSIVE SumHeights(_, _)
\* the sum of the heights of the rows at the positions of chunk
SumHeights(rows, chunk) ==
    IF chunk = <<>> THEN 0
    ELSE compute_row_height(rows[Head(chunk) + 1]) + SumHeights(rows, Tail(chunk))

\* the loop over the rows of day k has ended
DayOver(k) == k < d \/ (k = d /\ pc = "rows" /\ ~(row_i < total_rows))

\* C1: for every day with at least one row, the rows on its table pages, read page
\* after page, are the input rows in input order, each once; every page holds a
\* consecutive block of rows; the loop ends with the cursor equal to the number
\* of rows.
PaginationKeepsRows ==
    \A k \in 1..Len(dias) :
        Len(dias[k].rows) > 0 =>
            LET ps == TablePagesOf(k)
                shown == ShownRows(ps)
            IN  /\ \A j \in 1..Len(shown) : shown[j] = j - 1
                /\ Len(shown) <= Len(dias[k].rows)
                /\ \A q \in 1..Len(ps) :
                      \A j \in 1..(Len(ps[q].chunk) - 1) :
                          ps[q].chunk[j + 1] = ps[q].chunk[j] + 1
                /\ (k = d /\ pc = "rows") => row_i = Len(shown)
                /\ DayOver(k) => Len(shown) = Len(dias[k].rows)
                /\ (k = d /\ pc = "rows" /\ ~(row_i < total_rows)) => row_i = total_rows

\* a day of three rows was paginated into a page of two rows and a page of one
PaginationWitness ==
    /\ Len(dias) = 1 /\ Len(dias[1].rows) = 3
    /\ DayOver(1)
    /\ Len(TablePagesOf(1)) = 2
    /\ TablePagesOf(1)[1].chunk = <<0, 1>>
    /\ TablePagesOf(1)[2].chunk = <<2>>
    /\ row_i = 3

\* the rich-text pages, in the order they were emitted
ReportPages == SelectSeq(pages, LAMBDA p : p.kind = "report")

\* C2: on every table page the sum of the heights of its rows is <= the available
\* height unless the page holds exactly one row, and on every rich-text page
\* (number of lines) * (line height) is <= the available text height.
NoPageOverfilled ==
    \A q \in 1..Len(pages) :
        /\ pages[q].kind = "table" =>
              \/ SumHeights(dias[pages[q].day].rows, pages[q].chunk) <= available(height)
              \/ Len(pages[q].chunk) = 1
        /\ pages[q].kind = "report" =>
              Len(pages[q].lines) * lh <= max_h(height)

\* a table page of two rows that had no room for the next row, and a rich-text
\* page that had no room for the next line
FullPagesWitness ==
    /\ \E q \in 1..Len(pages) :
          /\ pages[q].kind = "table"
          /\ Len(pages[q].chunk) = 2
          /\ pages[q].chunk[2] + 2 <= Len(dias[pages[q].day].rows)
          /\ SumHeights(dias[pages[q].day].rows,
                        Append(pages[q].chunk, pages[q].chunk[2] + 1)) > available(height)
    /\ Len(ReportPages) >= 2
    /\ Len(ReportPages[1].lines) >= 2
    /\ (Len(ReportPages[1].lines) + 1) * lh > max_h(height)

\* row j of day k is higher than the available height
Oversized(k, j) == compute_row_height(dias[k].rows[j + 1]) > available(height)

\* C3: a row whose height alone exceeds the available height is placed alone on
\* its own page: every page that holds it holds only it, it is on a page once the
\* cursor has passed it, the following page starts with the following row, and
\* the loop terminates: every page advances the cursor, which never passes the
\* number of rows.
OversizedRowAlone ==
    \A k \in 1..Len(dias) :
        LET ps == TablePagesOf(k)
            n == Len(dias[k].rows)
        IN  /\ \A j \in 0..(n - 1) :
                  Oversized(k, j) =>
                      /\ \A q \in 1..Len(ps) :
                            (\E x \in 1..Len(ps[q].chunk) : ps[q].chunk[x] = j) =>
                                /\ ps[q].chunk = <<j>>
                                /\ q < Len(ps) => Head(ps[q + 1].chunk) = j + 1
                      /\ (DayOver(k) \/ (k = d /\ pc = "rows" /\ row_i > j)) =>
                            Cardinality({q \in 1..Len(ps) : ps[q].chunk = <<j>>}) = 1
            /\ \A q \in 1..Len(ps) : ps[q].chunk # <<>>
            /\ (k = d /\ pc = "rows") =>
                  /\ page_idx = Len(ps)
                  /\ page_idx <= row_i
                  /\ row_i <= n

\* an oversized row between two rows that fit: three pages, the second one
\* holding the oversized row alone, and the loop has ended
OversizedRowWitness ==
    /\ Len(dias) = 1 /\ Len(dias[1].rows) = 3
    /\ ~Oversized(1, 0) /\ Oversized(1, 1) /\ ~Oversized(1, 2)
    /\ DayOver(1)
    /\ Len(TablePagesOf(1)) = 3
    /\ TablePagesOf(1)[2].chunk = <<1>>
    /\ TablePagesOf(1)[3].chunk = <<2>>

\* ------------------------------------------------------------------------
\* Rich-text pagination and the calls of wrap_text_with_offsets
\* ------------------------------------------------------------------------
RECURSIVE LinesOf(_)
\* the calls of the wrapper that returned a line, in order, over a sequence of pages
LinesOf(ps) == IF ps = <<>> THEN <<>> ELSE Head(ps).lines \o LinesOf(Tail(ps))

Calls == LinesOf(ReportPages)

\* the loop "while start_off < len(text)" has ended
ReportOver ==
    \/ pc = "report" /\ ~(start_off < Len(text))
    \/ pc \in {"save", "done"} /\ strip(text) # <<>>

\* every rich-text page holds at least one line, so there are at most as many
\* pages as lines
EveryReportPageHasALine ==
    /\ \A q \in 1..Len(ReportPages) : Len(ReportPages[q].lines) >= 1
    /\ Len(ReportPages) <= Len(Calls)
    /\ pc = "report" => page_num = Len(ReportPages) + 1

WrapperAdvances ==
    /\ \A q \in 1..Len(Calls) :
          /\ Calls[q].off < Len(text)
          /\ Calls[q].off < Calls[q].next_off
          /\ Calls[q].next_off <= Len(text)
    /\ Len(Calls) <= Len(text)
    /\ ReportOver => /\ Calls # <<>>
                     /\ Calls[Len(Calls)].next_off = Len(text)

\* the calls ended at len(text) after a forced cut of one oversized character
\* and a break that skipped more than one character
WrapperAdvancesWitness ==
    /\ ReportOver
    /\ Len(Calls) >= 2
    /\ \E q \in 1..Len(Calls) :
          /\ Calls[q].next_off = Calls[q].off + 1
          /\ stringWidth(Calls[q].line) > max_w
    /\ \E q \in 1..Len(Calls) : Calls[q].next_off > Calls[q].off + Len(Calls[q].line)

\* C6: each returned line_start is the offset passed in, and the intervals
\* [line_start, next_off) of successive calls are consecutive, disjoint, and
\* together cover [0, len(text)).
SpansCoverText ==
    /\ \A q \in 1..Len(Calls) :
          /\ Calls[q].line_start = Calls[q].off
          /\ Calls[q].line_start < Calls[q].next_off
    /\ Calls # <<>> => Calls[1].line_start = 0
    /\ \A q \in 1..(Len(Calls) - 1) : Calls[q + 1].line_start = Calls[q].next_off
    /\ ReportOver => /\ Calls # <<>>
                     /\ Calls[Len(Calls)].next_off = Len(text)

\* the spans of a text with a blank line in the middle, over more than one page
SpansWitness ==
    /\ ReportOver
    /\ Len(ReportPages) >= 2
    /\ Len(Calls) >= 3
    /\ \E q \in 2..Len(Calls) : Calls[q].line = <<>> /\ Calls[q].line_start > 0

\* C7: every returned line is the literal substring of the text at its start
\* offset: line = text[line_start : line_start + len(line)].
LineIsSubstring ==
    \A q \in 1..Len(Calls) :
        /\ Calls[q].line_start + Len(Calls[q].line) <= Len(text)
        /\ Calls[q].line =
              SubSeq(text, Calls[q].line_start + 1, Calls[q].line_start + Len(Calls[q].line))

\* a line that starts with a space, at an offset other than 0
SubstringWitness ==
    \E q \in 1..Len(Calls) :
        /\ Calls[q].line_start > 0
        /\ Len(Calls[q].line) >= 2
        /\ Calls[q].line[1] = " "

\* C8: every returned line has measured width <= max_w, except a line that is a
\* single character which alone is wider than max_w.
LineFitsWidth ==
    \A q \in 1..Len(Calls) :
        \/ stringWidth(Calls[q].line) <= max_w
        \/ Len(Calls[q].line) = 1 /\ stringWidth(Calls[q].line) > max_w

\* a line that exactly fills the width and is broken at the space after it, and
\* a line of a single character wider than the width
FitsWidthWitness ==
    /\ \E q \in 1..Len(Calls) :
          /\ stringWidth(Calls[q].line) = max_w
          /\ Calls[q].next_off < Len(text)
          /\ text[Calls[q].line_start + Len(Calls[q].line) + 1] = " "
    /\ \E q \in 1..Len(Calls) :
          Len(Calls[q].line) = 1 /\ stringWidth(Calls[q].line) > max_w

\* the end of the paragraph that holds offset off: the next break or len(text)
ParaEnd(off) ==
    IF \E k \in off..(Len(text) - 1) : text[k + 1] = "\n"
    THEN CHOOSE k \in off..(Len(text) - 1) :
            /\ text[k + 1] = "\n"
            /\ \A m \in off..(k - 1) : text[m + 1] # "\n"
    ELSE Len(text)

\* the paragraph remainder at offset off
Remainder(off) == SubSeq(text, off + 1, ParaEnd(off))

\* the length of the longest prefix of the remainder at off that fits in max_w
FitLen(off) ==
    CHOOSE k \in 0..Len(Remainder(off)) :
        /\ stringWidth(SubSeq(Remainder(off), 1, k)) <= max_w
        /\ \A m \in (k + 1)..Len(Remainder(off)) :
              stringWidth(SubSeq(Remainder(off), 1, m)) > max_w

\* the positions (0-based, in the remainder at off) below bound that hold a space
SpacesBelow(off, bound) == {x \in 0..(bound - 1) : Remainder(off)[x + 1] = " "}

SetMax(S) == CHOOSE x \in S : \A y \in S : y <= x

\* the first offset from k on, before the paragraph end, that holds no space
FirstNonSpace(k, para_end) ==
    IF \E m \in k..(para_end - 1) : text[m + 1] # " "
    THEN CHOOSE m \in k..(para_end - 1) :
            /\ text[m + 1] # " "
            /\ \A x \in k..(m - 1) : text[x + 1] = " "
    ELSE IF k <= para_end THEN para_end ELSE k

\* the call c broke the line at the space at position sp of its remainder
BrokenAt(c, sp) ==
    /\ c.line = SubSeq(Remainder(c.off), 1, sp)
    /\ c.next_off = FirstNonSpace(c.off + sp + 1, ParaEnd(c.off))
    /\ c.next_off < ParaEnd(c.off) => text[c.next_off + 1] # " "

\* C9 as stated: when the remainder does not fit and its longest fitting prefix
\* contains a space, the line is the text before the last space inside that
\* prefix and next_off is the offset of the first non-space after that space.
BreakAtLastSpaceInPrefix ==
    \A q \in 1..Len(Calls) :
        LET c == Calls[q]
        IN  (/\ text[c.off + 1] # "\n"
             /\ FitLen(c.off) < Len(Remainder(c.off))
             /\ SpacesBelow(c.off, FitLen(c.off)) # {})
            => BrokenAt(c, SetMax(SpacesBelow(c.off, FitLen(c.off))))

\* C9 amended: when the remainder does not fit and there is a space after its
\* first character within the longest fitting prefix or directly after it, the
\* line is the text before the last such space and next_off is the offset of the
\* first non-space after that space, so the next line does not start with a space.
BreakAtLastSpaceUpToCut ==
    \A q \in 1..Len(Calls) :
        LET c == Calls[q]
        IN  (/\ text[c.off + 1] # "\n"
             /\ FitLen(c.off) < Len(Remainder(c.off))
             /\ SpacesBelow(c.off, FitLen(c.off) + 1) \ {0} # {})
            => BrokenAt(c, SetMax(SpacesBelow(c.off, FitLen(c.off) + 1)))

\* a break at the space that directly follows the fitting prefix, which itself
\* contains an earlier space, with a second space skipped
BreakWitness ==
    \E q \in 1..Len(Calls) :
        LET c == Calls[q]
        IN  /\ text[c.off + 1] # "\n"
            /\ FitLen(c.off) < Len(Remainder(c.off))
            /\ SpacesBelow(c.off, FitLen(c.off)) \ {0} # {}
            /\ Remainder(c.off)[FitLen(c.off) + 1] = " "
            /\ c.next_off < Len(text)

\* the rows of day k all have the height of the first one
EqualHeights(k) ==
    \A j \in 1..Len(dias[k].rows) :
        compute_row_height(dias[k].rows[j]) = compute_row_height(dias[k].rows[1])

\* the number of rows of the height of the first row of day k that fit in the
\* available height
RowsThatFit(k) == available(height) \div compute_row_height(dias[k].rows[1])

\* C17: for a day of n rows of equal height of which exactly k fit in the
\* available height, the finished day has ceil(n / k) table pages, every page
\* but the last holds k rows and the last holds the remainder.
PaginationIsGreedy ==
    \A k \in 1..Len(dias) :
        (DayOver(k) /\ Len(dias[k].rows) > 0 /\ EqualHeights(k) /\ RowsThatFit(k) >= 1) =>
            LET ps == TablePagesOf(k)
                n == Len(dias[k].rows)
                fit == RowsThatFit(k)
            IN  /\ Len(ps) = (n + fit - 1) \div fit
                /\ \A q \in 1..(Len(ps) - 1) : Len(ps[q].chunk) = fit
                /\ Len(ps[Len(ps)].chunk) = n - fit * (Len(ps) - 1)

\* a day of five equal rows, two of which fit, was paginated into pages of
\* two, two and one rows
GreedyWitness ==
    /\ Len(dias) = 1 /\ DayOver(1)
    /\ Len(dias[1].rows) = 5 /\ EqualHeights(1) /\ RowsThatFit(1) = 2
    /\ Len(TablePagesOf(1)) = 3
    /\ Len(TablePagesOf(1)[1].chunk) = 2
    /\ Len(TablePagesOf(1)[2].chunk) = 2
    /\ Len(TablePagesOf(1)[3].chunk) = 1

\* the pages of the rich-text section
SectionPages == SelectSeq(pages, LAMBDA p : p.kind \in {"report", "blank"})

\* the counter of a title: 0 for the base title, 1 for the suffix "(cont.)"
\* that names no number, otherwise the number of the suffix "(cont. n)"
TitleCounter(title) ==
    IF Len(title) = 1 THEN 0 ELSE IF Len(title) = 2 THEN 1 ELSE title[3]

\* C18: within one day the first table page carries the day name and each
\* later page a "cont." suffix whose counter grows from page to page, so the
\* titles of a day are pairwise distinct; the rich-text section titles its
\* first page "Reporte" and each later page "Reporte (cont. n)" with n growing.
TitlesFollowPageIndex ==
    /\ \A k \in 1..Len(dias) :
          LET ps == TablePagesOf(k)
          IN  /\ \A q \in 1..Len(ps) :
                    /\ ps[q].title[1] = dias[k].nombre
                    /\ (q = 1) <=> (ps[q].title = <<dias[k].nombre>>)
                    /\ q > 1 => ps[q].title[2] = "cont."
                    /\ TitleCounter(ps[q].title) = q - 1
              /\ \A q \in 1..(Len(ps) - 1) :
                    TitleCounter(ps[q].title) < TitleCounter(ps[q + 1].title)
              /\ \A q1, q2 \in 1..Len(ps) : q1 # q2 => ps[q1].title # ps[q2].title
    /\ LET rs == SectionPages
       IN  /\ \A q \in 1..Len(rs) :
                 /\ rs[q].title[1] = "Reporte"
                 /\ (q = 1) <=> (rs[q].title = <<"Reporte">>)
                 /\ q > 1 => (rs[q].title[2] = "cont." /\ rs[q].title[3] = q)
           /\ \A q \in 1..(Len(rs) - 1) :
                 TitleCounter(rs[q].title) < TitleCounter(rs[q + 1].title)
           /\ \A q1, q2 \in 1..Len(rs) : q1 # q2 => rs[q1].title # rs[q2].title

\* a day took three table pages and the rich text three pages
TitlesWitness ==
    /\ Len(dias) = 1
    /\ Len(TablePagesOf(1)) = 3
    /\ TablePagesOf(1)[2].title = <<"Dia", "cont.">>
    /\ TablePagesOf(1)[3].title = <<"Dia", "cont.", 2>>
    /\ Len(SectionPages) = 3
    /\ SectionPages[3].title = <<"Reporte", "cont.", 3>>

\* the place of a page in the document: 0 for the cover, k for a page of day k,
\* the number of days plus one for a page of the rich-text section
PageRank(p) ==
    IF p.kind = "cover" THEN 0
    ELSE IF p.kind \in {"table", "empty"} THEN p.day
    ELSE Len(dias) + 1

\* the cover comes first and once, the pages of the days follow in input order,
\* the rich-text pages come last
PagesInOrder ==
    /\ pages # <<>> => pages[1].kind = "cover"
    /\ \A q \in 2..Len(pages) : pages[q].kind # "cover"
    /\ \A q \in 1..Len(pages) : PageRank(pages[q]) \in 0..(Len(dias) + 1)
    /\ \A q \in 1..(Len(pages) - 1) : PageRank(pages[q]) <= PageRank(pages[q + 1])

\* a cover, at least one page for every day and at least one rich-text page
DocumentComplete ==
    /\ pages # <<>> /\ pages[1].kind = "cover"
    /\ \A k \in 1..Len(dias) : \E q \in 1..Len(pages) : PageRank(pages[q]) = k
    /\ SectionPages # <<>>
    /\ pages[Len(pages)].kind \in {"report", "blank"}

\* C19: the pages are emitted in strict order: one cover page, then for each
\* day in input order one or more table pages, then one or more rich-text
\* pages; the document is closed once, after the last rich-text page, and no
\* page is emitted after it is closed.
ExportOrder ==
    /\ [](PagesInOrder /\ (saved => (DocumentComplete /\ pc = "done")))
    /\ [][saved => (saved' /\ pages' = pages)]_vars
    /\ [][(~saved /\ saved') => (pages' = pages /\ DocumentComplete)]_vars

\* a document of two days and a rich-text page was closed
ExportOrderWitness ==
    /\ saved /\ pc = "done"
    /\ Len(dias) = 2
    /\ Len(dias[1].rows) = 0 /\ Len(dias[2].rows) = 1
    /\ Len(SectionPages) >= 2
    /\ notice = <<"PDF exportado">>

RECURSIVE Sum(_)
\* the sum of a sequence of numbers
Sum(ns) == IF ns = <<>> THEN 0 ELSE Head(ns) + Sum(Tail(ns))

\* every single character of the text fits in max_w
EveryCharFits == \A k \in 1..Len(text) : CharWidth(text[k]) <= max_w

\* C26 as stated: over a text in which every single character fits in max_w,
\* an empty line is returned only at an offset that holds a paragraph break
\* and is 0 or directly follows another paragraph break; the break that ends a
\* non-empty paragraph yields no blank line of its own.
BlankLinesOnlyForEmptyParagraphs ==
    EveryCharFits =>
        \A q \in 1..Len(Calls) :
            Calls[q].line = <<>> =>
                /\ text[Calls[q].off + 1] = "\n"
                /\ Calls[q].off = 0 \/ text[Calls[q].off] = "\n"

\* C27: every character of the text that is neither a space nor a paragraph
\* break appears in exactly one returned line, at line index
\* (its offset - line_start); only spaces and paragraph breaks appear in no
\* line.
NoVisibleCharacterLost ==
    /\ \A q \in 1..Len(Calls) : \A j \in 1..Len(Calls[q].line) :
          Calls[q].line[j] = text[Calls[q].line_start + j]
    /\ \A q1, q2 \in 1..Len(Calls) :
          q1 < q2 => Calls[q1].line_start + Len(Calls[q1].line) <= Calls[q2].line_start
    /\ ReportOver =>
          \A k \in 0..(Len(text) - 1) :
              text[k + 1] \notin {" ", "\n"} =>
                  \E q \in 1..Len(Calls) :
                      /\ Calls[q].line_start <= k
                      /\ k < Calls[q].line_start + Len(Calls[q].line)

\* a text was rendered whose lines leave out a space and a paragraph break and
\* show every other character, over more than one line
NoLossWitness ==
    /\ ReportOver
    /\ Len(Calls) >= 2
    /\ Sum([q \in 1..Len(Calls) |-> Len(Calls[q].line)]) = Len(text) - 2
    /\ \E k \in 1..Len(text) : text[k] = " "
    /\ \E k \in 1..Len(text) : text[k] = "\n"
    /\ \E k \in 1..Len(text) : text[k] = "W"

\* the height of the table card: table_h = th + used + 0.25 * inch
table_h(used) == th + used + 25

\* C25 as stated: on every table page the used height after the chunk is built
\* is the sum of the heights of the rows of the chunk, so the table card of
\* height th + used + 0.25 in encloses every row of the page, a single
\* oversized row included.
UsedIsSumOfRowHeights ==
    \A q \in 1..Len(pages) :
        pages[q].kind = "table" =>
            /\ pages[q].used = Sum(pages[q].chunk_heights)
            /\ table_h(pages[q].used) >= th + Sum(pages[q].chunk_heights)

\* the pages of day k, of whatever kind
DayPagesOf(k) == SelectSeq(pages, LAMBDA p : p.kind \in {"table", "empty"} /\ p.day = k)

\* the elements drawn on a page
DrawnOn(p) == {p.drawn[j] : j \in 1..Len(p.drawn)}

\* C20: a day with zero rows renders exactly one page, which carries the base
\* day title, the table header and the placeholder "Sin filas." and no row.
EmptyDayHasOnePlaceholderPage ==
    \A k \in 1..Len(dias) :
        Len(dias[k].rows) = 0 =>
            LET ps == DayPagesOf(k)
            IN  /\ Len(ps) = IF k < d THEN 1 ELSE 0
                /\ \A q \in 1..Len(ps) :
                      /\ ps[q].title = <<dias[k].nombre>>
                      /\ {"table_header", "Sin filas."} \subseteq DrawnOn(ps[q])
                      /\ "rows" \notin DrawnOn(ps[q])
                      /\ ps[q].chunk = <<>> /\ ps[q].chunk_heights = <<>>

\* a day without rows, followed by a day with a row, got its one page
EmptyDayWitness ==
    /\ Len(dias) = 2 /\ d > 2
    /\ Len(dias[1].rows) = 0 /\ Len(dias[2].rows) = 1
    /\ Len(DayPagesOf(1)) = 1
    /\ DayPagesOf(1)[1].drawn = <<"day_header", "table_header", "Sin filas.">>
    /\ Len(TablePagesOf(2)) = 1

\* the rich-text section has been rendered
SectionOver == pc \in {"save", "done"}

\* the text is empty or holds only spaces, tabs and paragraph breaks
OnlyWhitespace == \A k \in 1..Len(text) : text[k] \in {" ", "\t", "\n"}

\* C21: a text that is empty or only whitespace renders exactly one rich-text
\* page whose only text line is the placeholder "(sin texto)"; a text with a
\* character that is not whitespace renders no placeholder and each of its
\* pages holds at least one wrapped line.
BlankTextHasOnePlaceholderPage ==
    /\ \A q \in 1..Len(SectionPages) :
          IF OnlyWhitespace
          THEN /\ q = 1
               /\ SectionPages[q].kind = "blank"
               /\ "(sin texto)" \in DrawnOn(SectionPages[q])
               /\ SectionPages[q].lines = <<>>
          ELSE /\ SectionPages[q].kind = "report"
               /\ "(sin texto)" \notin DrawnOn(SectionPages[q])
               /\ Len(SectionPages[q].lines) >= 1
    /\ SectionOver => Len(SectionPages) >= 1

\* a text of a space and a paragraph break was rendered as the one placeholder
\* page
BlankTextWitness ==
    /\ SectionOver
    /\ text = <<" ", "\n", " ">>
    /\ Len(SectionPages) = 1
    /\ SectionPages[1].drawn = <<"title", "card", "(sin texto)">>

\* C22: an export ends with exactly one notification, "PDF exportado" (shown
\* only after the document was saved) or a single "Error"; when a step raises
\* before the save, the save is never performed and "PDF exportado" is not
\* shown.
ExportIsAllOrNothing ==
    /\ [](/\ Len(notice) <= 1
          /\ pc \in {"done", "failed"} <=> Len(notice) = 1
          /\ notice = <<"PDF exportado">> <=> saved
          /\ pc = "done" <=> saved
          /\ pc = "failed" => (notice = <<"Error">> /\ ~saved))
    /\ [][pc = "failed" => (pc' = "failed" /\ ~saved' /\ notice' = notice)]_vars
    /\ [][notice # <<>> => notice' = notice]_vars

\* the export failed after the cover and a table page were rendered: nothing
\* was saved and the one notification is "Error"
FailedExportWitness ==
    /\ pc = "failed"
    /\ Len(pages) >= 2 /\ SectionPages = <<>>
    /\ ~saved
    /\ notice = <<"Error">>

\* ------------------------------------------------------------------------
\* The word wrapper applied to every bounded input
\* ------------------------------------------------------------------------
InitWrap ==
    /\ wl_text \in Texts \cup {None}
    /\ wl_max_width \in 1..MaxWidth
    /\ wl_lines = <<>>
    /\ wl_pc = "call"
    /\ RunsIdle /\ RowIdle /\ ExtraIdle
    /\ InputsIdle /\ ExportIdle

CallWrapLines ==
    /\ wl_pc = "call"
    /\ wl_lines' = wrap_lines(wl_text, wl_max_width)
    /\ wl_pc' = "ret"
    /\ UNCHANGED <<wl_text, wl_max_width>>
    /\ UNCHANGED <<rl_vars, rh_vars, extra_vars, in_vars, ex_vars>>

NextWrap == CallWrapLines

SpecWrap == InitWrap /\ [][NextWrap]_vars

\* C10: every line returned by wrap_lines has measured width <= max_width, or
\* is a single character that is wider than max_width.
WrapLinesRespectWidth ==
    wl_pc = "ret" =>
        \A k \in 1..Len(wl_lines) :
            \/ stringWidth(wl_lines[k]) <= wl_max_width
            \/ Len(wl_lines[k]) = 1 /\ stringWidth(wl_lines[k]) > wl_max_width

\* an oversized token was cut by characters into more than one line
WrapLinesCutWitness ==
    /\ wl_pc = "ret"
    /\ Len(wl_lines) >= 2
    /\ \A k \in 1..Len(wl_text) : wl_text[k] \notin Whitespace
    /\ stringWidth(wl_text) > wl_max_width
    /\ \E k \in 1..Len(wl_lines) :
          Len(wl_lines[k]) = 1 /\ stringWidth(wl_lines[k]) > wl_max_width
    /\ WrapLinesRespectWidth

RECURSIVE Concat(_)
\* the lines of a sequence of lines, one after the other
Concat(ls) == IF ls = <<>> THEN <<>> ELSE Head(ls) \o Concat(Tail(ls))

WithoutSpaces(s) == SelectSeq(s, LAMBDA ch : ch # " ")

WithoutWhitespace(s) == SelectSeq(s, LAMBDA ch : ch \notin Whitespace)

\* the tab-normalized, trimmed input of wrap_lines
NormalizedInput == strip(replace_tabs(IF wl_text = None THEN <<>> ELSE wl_text))

\* C11 as stated: the returned lines, concatenated with the spaces discarded,
\* are the tab-normalized, trimmed input with its spaces discarded.
WrapLinesKeepAllButSpaces ==
    wl_pc = "ret" => WithoutSpaces(Concat(wl_lines)) = WithoutSpaces(NormalizedInput)

\* C11 amended: the returned lines, concatenated with the whitespace discarded,
\* are the input with its whitespace discarded: no character other than
\* whitespace (spaces, tabs, line breaks) is dropped, duplicated or reordered,
\* also when an oversized token is cut by characters.
WrapLinesKeepAllButWhitespace ==
    wl_pc = "ret" =>
        WithoutWhitespace(Concat(wl_lines)) = WithoutWhitespace(NormalizedInput)

\* an oversized token was cut by characters and a line break next to a space
\* was dropped
KeepContentWitness ==
    /\ wl_pc = "ret"
    /\ wl_text # None
    /\ \E k \in 1..Len(wl_lines) :
          Len(wl_lines[k]) = 1 /\ stringWidth(wl_lines[k]) > wl_max_width
    /\ Len(Concat(wl_lines)) >= 2
    /\ WithoutSpaces(Concat(wl_lines)) # WithoutSpaces(NormalizedInput)

\* the input of wrap_lines is None, empty or only whitespace
BlankInput == wl_text = None \/ \A k \in 1..Len(wl_text) : wl_text[k] \in Whitespace

\* C12: wrap_lines returns at least one line for every input, and for an empty
\* or whitespace-only input (None and tabs included) exactly one line, the
\* empty string.
WrapLinesNeverEmpty ==
    wl_pc = "ret" =>
        /\ Len(wl_lines) >= 1
        /\ BlankInput => wl_lines = << <<>> >>

\* wrap_lines returned one empty line for None
NoneInputWitness ==
    /\ wl_pc = "ret"
    /\ wl_text = None
    /\ wl_lines = << <<>> >>

\* ------------------------------------------------------------------------
\* draw_rich_line: the runs of one line of the rich text
\* ------------------------------------------------------------------------
\* any(a <= off < b2 for a, b2 in ranges)
in_ranges(ranges, off) ==
    \E k \in 1..Len(ranges) : ranges[k][1] <= off /\ off < ranges[k][2]

\* faulty variant: only the first interval of each list is looked at
style_for_offset_FirstOnly(off) ==
    LET b == bold_ranges # <<>> /\ in_ranges(<<bold_ranges[1]>>, off)
        i == italic_ranges # <<>> /\ in_ranges(<<italic_ranges[1]>>, off)
    IN  IF b /\ i THEN "BI" ELSE IF b THEN "B" ELSE IF i THEN "I" ELSE "N"

style_for_offset(off) ==
    LET b == in_ranges(bold_ranges, off)
        i == in_ranges(italic_ranges, off)
    IN  IF b /\ i THEN "BI" ELSE IF b THEN "B" ELSE IF i THEN "I" ELSE "N"

\* a run drawn with safe_draw_string in the font of its style
Run(run, st) == [text |-> run, style |-> st]

\* faulty variant: an empty run is drawn as well
flush_run_AlsoEmpty(runs, run, st) == Append(runs, Run(run, st))

\* flush(run, st) of draw_rich_line: nothing is drawn for an empty run
flush_run(runs, run, st) == IF run = <<>> THEN runs ELSE Append(runs, Run(run, st))

RECURSIVE rich_line_loop(_, _, _, _, _, _)
\* the loop "for j, ch in enumerate(line_text)" and the final flush; j is 0-based
rich_line_loop(line_text, line_start_offset, j, cur_run, cur_style, runs) ==
    IF j >= Len(line_text)
    THEN flush_run(runs, cur_run, cur_style)
    ELSE LET ch == line_text[j + 1]
             off == line_start_offset + j
             st == style_for_offset(off)
         IN  IF cur_style = "None"
             THEN rich_line_loop(line_text, line_start_offset, j + 1, <<ch>>, st, runs)
             ELSE IF st = cur_style
             THEN rich_line_loop(line_text, line_start_offset, j + 1,
                                 Append(cur_run, ch), cur_style, runs)
             ELSE rich_line_loop(line_text, line_start_offset, j + 1, <<ch>>, st,
                                 flush_run(runs, cur_run, cur_style))

draw_rich_line(line_text, line_start_offset) ==
    rich_line_loop(line_text, line_start_offset, 0, <<>>, "None", <<>>)

\* the lines handed to draw_rich_line: no line break, at most MaxLen characters
LineTexts == UNION {[1..n -> {"a", " "}] : n \in 0..MaxLen}

\* the offsets of the text at which a line starts
LineStarts == {0, 1}

\* the largest offset named by an interval
MaxOff == 3

\* an interval [start, end) as stored in the payload; start = end is empty
Intervals == {iv \in (0..MaxOff) \X (0..MaxOff) : iv[1] <= iv[2]}

\* lists of at most n intervals, in any order, overlapping or not
RangeLists(n) == UNION {[1..m -> Intervals] : m \in 0..n}

InitRuns ==
    /\ rl_line \in LineTexts
    /\ rl_start \in LineStarts
    /\ bold_ranges \in RangeLists(2)
    /\ italic_ranges \in RangeLists(1)
    /\ rl_runs = <<>>
    /\ rl_pc = "call"
    /\ WrapIdle /\ RowIdle /\ ExtraIdle
    /\ InputsIdle /\ ExportIdle

CallDrawRichLine ==
    /\ rl_pc = "call"
    /\ rl_runs' = draw_rich_line(rl_line, rl_start)
    /\ rl_pc' = "ret"
    /\ UNCHANGED <<rl_line, rl_start, bold_ranges, italic_ranges>>
    /\ UNCHANGED <<wl_vars, rh_vars, extra_vars, in_vars, ex_vars>>

NextRuns == CallDrawRichLine

SpecRuns == InitRuns /\ [][NextRuns]_vars

\* the texts of the runs, one after the other
RunTexts == [k \in 1..Len(rl_runs) |-> rl_runs[k].text]

\* the style of an offset, read off the intervals
StyleAt(off) ==
    LET b == \E k \in 1..Len(bold_ranges) :
                 bold_ranges[k][1] <= off /\ off < bold_ranges[k][2]
        i == \E k \in 1..Len(italic_ranges) :
                 italic_ranges[k][1] <= off /\ off < italic_ranges[k][2]
    IN  CASE b /\ i -> "BI" [] b /\ ~i -> "B" [] ~b /\ i -> "I" [] OTHER -> "N"

\* the number of characters of the runs before run k
RunStart(k) == Len(Concat(SubSeq(RunTexts, 1, k - 1)))

\* C13: the runs drawn, concatenated in order, equal the line; every character
\* at line index j is in a run whose style is the style of offset
\* line_start + j under bold_ranges and italic_ranges (unsorted, overlapping
\* intervals allowed); no run is empty and two adjacent runs never have the
\* same style.
RunsAreMaximalStyleRuns ==
    rl_pc = "ret" =>
        /\ Concat(RunTexts) = rl_line
        /\ \A k \in 1..Len(rl_runs) :
              /\ rl_runs[k].text # <<>>
              /\ \A j \in RunStart(k)..(RunStart(k) + Len(rl_runs[k].text) - 1) :
                    rl_runs[k].style = StyleAt(rl_start + j)
        /\ \A k \in 1..(Len(rl_runs) - 1) : rl_runs[k].style # rl_runs[k + 1].style

\* "aa a" at offset 0 with bold [0, 2) was drawn as ("aa", bold), (" a", normal),
\* as "Hello world" with bold [0, 5) is
RunsWitness ==
    /\ rl_pc = "ret"
    /\ rl_line = <<"a", "a", " ", "a">> /\ rl_start = 0
    /\ bold_ranges = << <<0, 2>> >> /\ italic_ranges = <<>>
    /\ rl_runs = <<Run(<<"a", "a">>, "B"), Run(<<" ", "a">>, "N")>>

\* a line was drawn with unsorted, overlapping bold intervals, the second of
\* which alone decides the style of a character
UnsortedRangesWitness ==
    /\ rl_pc = "ret"
    /\ Len(bold_ranges) = 2
    /\ bold_ranges[2][1] < bold_ranges[1][1] /\ bold_ranges[1][1] < bold_ranges[2][2]
    /\ Len(rl_runs) >= 2
    /\ \E k \in 1..Len(rl_runs) : rl_runs[k].style = "BI"

\* C14 as stated: a line rendered while bold_ranges and italic_ranges are both
\* empty gives exactly one run, of style normal, covering the whole line.
UnstyledLineIsOneRun ==
    (rl_pc = "ret" /\ bold_ranges = <<>> /\ italic_ranges = <<>>) =>
        rl_runs = <<Run(rl_line, "N")>>

\* C14 amended: a non-empty line rendered while bold_ranges and italic_ranges
\* are both empty gives exactly one run, of style normal, covering the whole
\* line; an empty line (a paragraph break) gives no run at all.
UnstyledLineIsOneRunUnlessEmpty ==
    (rl_pc = "ret" /\ bold_ranges = <<>> /\ italic_ranges = <<>>) =>
        IF rl_line = <<>> THEN rl_runs = <<>> ELSE rl_runs = <<Run(rl_line, "N")>>

\* a line of several words was drawn without style ranges
UnstyledLineWitness ==
    /\ rl_pc = "ret" /\ bold_ranges = <<>> /\ italic_ranges = <<>>
    /\ Len(rl_line) >= 3 /\ \E k \in 1..Len(rl_line) : rl_line[k] = " "
    /\ rl_runs = <<Run(rl_line, "N")>>

\* ------------------------------------------------------------------------
\* compute_row_height on rows of every shape
\* ------------------------------------------------------------------------
\* the texts of words of at most MaxLen characters
CellTexts == UNION {[1..n -> {"a", " "}] : n \in 0..MaxLen}

\* cell texts of one to five lines in the widest columns
CellSamples ==
    {<<>>, None, <<"a", " ", "a">>, <<"W", "W", "W", "W", "W">>,
     <<"W", "W", " ", "a", "\n", "a", " ", "W", "W", " ", "W", "W", "W">>}

\* values of files_path: none, a file in a folder, a folder
FileSamples == {<<>>, <<"a", "/", "W", "W", "a">>, <<"W", "/">>}

RowInputs ==
    {[tarjeta |-> t, files_path |-> f, peso |-> p, desglose |-> g, comentarios |-> c] :
        t \in CellSamples, f \in FileSamples, p \in CellTexts, g \in CellSamples,
        c \in CellSamples}

InitRow ==
    /\ rh_row \in RowInputs
    /\ rh_height = 0
    /\ rh_pc = "call"
    /\ WrapIdle /\ RunsIdle /\ ExtraIdle
    /\ InputsIdle /\ ExportIdle

CallComputeRowHeight ==
    /\ rh_pc = "call"
    /\ rh_height' = compute_row_height(rh_row)
    /\ rh_pc' = "ret"
    /\ UNCHANGED rh_row
    /\ UNCHANGED <<wl_vars, rl_vars, extra_vars, in_vars, ex_vars>>

NextRow == CallComputeRowHeight

SpecRow == InitRow /\ [][NextRow]_vars

\* the wrapped line counts of the five text cells of the row
CellLineCounts ==
    {Len(wrap_lines(rh_row.tarjeta, cell_width.tarjeta)),
     Len(wrap_lines(basename(rh_row.files_path), cell_width.files)),
     Len(wrap_lines(rh_row.peso, cell_width.peso)),
     Len(wrap_lines(rh_row.desglose, cell_width.desglose)),
     Len(wrap_lines(rh_row.comentarios, cell_width.comentarios))}

\* the largest wrapped line count over the text cells, at least 1
MaxLines == CHOOSE n \in CellLineCounts \cup {1} : \A k \in CellLineCounts \cup {1} : k <= n

\* C15: the row height is the largest of maxLines * line_h + 2 * pad_y_cell,
\* the minimum badge height (badge_h + 2 * pad_y_cell) and the absolute floor,
\* with maxLines the largest wrapped line count over the text cells; a cell of
\* n lines makes the height at least n * line_h + 2 * pad_y_cell, and the
\* height is positive.
RowHeightIsMaxOfThree ==
    rh_pc = "ret" =>
        /\ \E h \in {MaxLines * line_h + 2 * pad_y_cell, badge_h + 2 * pad_y_cell, row_floor} :
              /\ rh_height = h
              /\ rh_height >= MaxLines * line_h + 2 * pad_y_cell
              /\ rh_height >= badge_h + 2 * pad_y_cell
              /\ rh_height >= row_floor
        /\ \A n \in CellLineCounts : rh_height >= n * line_h + 2 * pad_y_cell
        /\ rh_height > 0

\* a row with a cell of three lines, and no longer cell, got the height of
\* three lines and two paddings
RowHeightWitness ==
    /\ rh_pc = "ret"
    /\ Len(wrap_lines(rh_row.peso, cell_width.peso)) = 3
    /\ MaxLines = 3
    /\ rh_height = 3 * line_h + 2 * pad_y_cell

\* all five text cells of the row are empty
AllCellsEmpty ==
    /\ rh_row.tarjeta \in {<<>>, None} /\ rh_row.files_path = <<>> /\ rh_row.peso = <<>>
    /\ rh_row.desglose \in {<<>>, None} /\ rh_row.comentarios \in {<<>>, None}

\* C16 as stated: a row whose text cells are all empty has a height equal to
\* the absolute floor, 0.46 inch.
EmptyRowHasFloorHeight ==
    (rh_pc = "ret" /\ AllCellsEmpty) => rh_height = row_floor

\* C16 amended: a row whose text cells are all empty has the minimum badge
\* height, badge_h + 2 * pad_y_cell = 0.48 inch, which is above the absolute
\* floor of 0.46 inch.
EmptyRowHasBadgeHeight ==
    (rh_pc = "ret" /\ AllCellsEmpty) =>
        /\ rh_height = badge_h + 2 * pad_y_cell
        /\ rh_height > row_floor

\* the height of the row of add_row, with every text cell "", was computed
EmptyRowWitness ==
    /\ rh_pc = "ret"
    /\ rh_row = EmptyRow
    /\ rh_height = 48

\* ------------------------------------------------------------------------
\* Drawing and measuring strings: safe_draw_string, drawString, stringWidth
\* ------------------------------------------------------------------------
\* "a": a printable character below U+D800; "S": a character from U+D800 on
\* (a lone surrogate, an emoji); "\t": a character that is not printable
DrawChars == {"a", "S", "\t"}

DrawTexts == UNION {[1..n -> DrawChars] : n \in 0..MaxLen}

\* the cleaning of safe_draw_string: characters from U+D800 on and characters
\* that are not printable become the placeholder glyph
clean(s) == [k \in 1..Len(s) |-> IF s[k] \in {"S", "\t"} THEN "□" ELSE s[k]]

\* the canvas may raise only on a string with a character from U+D800 on
may_raise(s) == \E k \in 1..Len(s) : s[k] = "S"

\* safe_draw_string: drawString, and when it raised, drawString of the cleaned
\* string outside any try
safe_draw_string(s, raises) ==
    IF ~raises
    THEN [out |-> s, raised |-> FALSE]
    ELSE [out |-> clean(s), raised |-> may_raise(clean(s))]

\* the strings drawn with safe_draw_string: table cells, rich-text runs
SafeSites == {"table_cell", "rich_run"}

\* the strings drawn with drawString: cover fields, cover badges, day headers
RawSites == {"cover_text", "cover_badge", "day_header"}

\* the strings measured with stringWidth: cell tokens, rich-text runs and lines
MeasureSites == {"cell_measure", "run_measure", "line_measure"}

\* the position of export_pdf at which a site is reached
site_pc(site) ==
    IF site \in {"cover_text", "cover_badge"} THEN "cover"
    ELSE IF site \in {"day_header", "table_cell", "cell_measure"} THEN "rows"
    ELSE "report"

InitDraw ==
    /\ ds_site \in SafeSites \cup RawSites \cup MeasureSites
    /\ ds_text \in DrawTexts
    /\ ds_out = <<>> /\ ds_failed = FALSE /\ ds_pc = "call"
    /\ pc = site_pc(ds_site) /\ d = 0 /\ page_idx = 0 /\ row_i = 0 /\ start_off = 0
    /\ page_num = 0 /\ pages = <<>> /\ saved = FALSE /\ notice = <<>>
    /\ WrapIdle /\ RunsIdle /\ RowIdle /\ RecordIdle /\ FontsIdle /\ SaveIdle
    /\ InputsIdle

\* an exception leaves the try block of export_pdf: the except clause
Propagate ==
    /\ pc' = "failed"
    /\ notice' = Append(notice, "Error")
    /\ UNCHANGED <<d, page_idx, row_i, start_off, page_num, pages, saved>>

\* a string drawn with safe_draw_string
DrawSafe ==
    /\ ds_pc = "call" /\ ds_site \in SafeSites
    /\ \E raises \in {FALSE, may_raise(ds_text)} :
          LET r == safe_draw_string(ds_text, raises)
          IN  /\ ds_failed' = raises
              /\ IF r.raised
                 THEN ds_out' = <<>> /\ ds_pc' = "raised" /\ Propagate
                 ELSE ds_out' = r.out /\ ds_pc' = "drawn" /\ UNCHANGED ex_vars
    /\ UNCHANGED <<ds_site, ds_text>>
    /\ UNCHANGED <<wl_vars, rl_vars, rh_vars, rec_vars, font_vars, save_vars, in_vars>>

\* a string drawn with c.drawString directly
DrawRaw ==
    /\ ds_pc = "call" /\ ds_site \in RawSites
    /\ \E raises \in {FALSE, may_raise(ds_text)} :
          /\ ds_failed' = raises
          /\ IF raises
             THEN ds_out' = <<>> /\ ds_pc' = "raised" /\ Propagate
             ELSE ds_out' = ds_text /\ ds_pc' = "drawn" /\ UNCHANGED ex_vars
    /\ UNCHANGED <<ds_site, ds_text>>
    /\ UNCHANGED <<wl_vars, rl_vars, rh_vars, rec_vars, font_vars, save_vars, in_vars>>

\* a string measured with stringWidth
Measure ==
    /\ ds_pc = "call" /\ ds_site \in MeasureSites
    /\ \E raises \in {FALSE, may_raise(ds_text)} :
          /\ ds_failed' = raises
          /\ IF raises
             THEN ds_pc' = "raised" /\ Propagate
             ELSE ds_pc' = "drawn" /\ UNCHANGED ex_vars
    /\ UNCHANGED <<ds_site, ds_text, ds_out>>
    /\ UNCHANGED <<wl_vars, rl_vars, rh_vars, rec_vars, font_vars, save_vars, in_vars>>

NextDraw == DrawSafe \/ DrawRaw \/ Measure

SpecDraw == InitDraw /\ [][NextDraw]_vars

\* C23 as stated: a failure to draw or measure a string is never propagated:
\* in every section the text is redrawn with placeholder glyphs and the export
\* goes on, so it does not fail.
DrawFailureNeverPropagates ==
    ds_failed =>
        /\ ds_pc = "drawn"
        /\ pc # "failed" /\ notice = <<>>
        /\ ds_site \notin MeasureSites => ds_out = clean(ds_text)

\* ------------------------------------------------------------------------
\* Defaults of absent fields: default_report, open_report, load_from_data,
\* export_pdf
\* ------------------------------------------------------------------------
STATUS_OPTIONS == <<"WORK IN PROGRESS", "DONE", "ON HOLD", "CANCELLED">>

PRIORITY_OPTIONS == <<"BAJA", "MEDIA", "ALTA", "URGENTE">>

\* the fields of the report itself, of a day, of a row
TopFields == {"proyecto", "status_general", "prioridad"}

DayFields == {"nombre"}

RowFields == {"tarjeta", "backup_b", "backup_expo", "proxies"}

StatusFields == {"backup_b", "backup_expo", "proxies"}

\* dict.get(key, default)
get(rec, key, default) == IF rec[key] # Absent THEN rec[key] ELSE default

\* dict.setdefault(key, default), as the value the key has afterwards
setdefault(rec, key, default) == get(rec, key, default)

\* faulty variant: the priority of a new report is the first option
default_report_FirstPriority ==
    [f \in TopFields |->
        IF f = "status_general" THEN STATUS_OPTIONS[1]
        ELSE IF f = "prioridad" THEN PRIORITY_OPTIONS[1]
        ELSE ""]

\* default_report: STATUS_OPTIONS[0] and PRIORITY_OPTIONS[1] of the source
\* are the first and the second option
default_report ==
    [f \in TopFields |->
        IF f = "status_general" THEN STATUS_OPTIONS[1]
        ELSE IF f = "prioridad" THEN PRIORITY_OPTIONS[2]
        ELSE ""]

\* the row of add_row
add_row == [f \in RowFields |-> IF f \in StatusFields THEN "PENDIENTE" ELSE ""]

\* new_report: default_report with its one day "Día 1", and a row of add_row
new_report ==
    [f \in Fields |->
        IF f \in TopFields THEN default_report[f]
        ELSE IF f \in DayFields THEN "Día 1"
        ELSE add_row[f]]

\* open_report: base = default_report(); base.update(data); setdefault of the
\* day name and of the three status fields of each row
open_report(data) ==
    [f \in Fields |->
        IF f \in TopFields THEN get(data, f, default_report[f])
        ELSE IF f \in DayFields THEN setdefault(data, f, "Día")
        ELSE IF f \in StatusFields THEN setdefault(data, f, "PENDIENTE")
        ELSE data[f]]

\* load_from_data, _create_day_tab and _insert_tree_row: the values shown
load_from_data(data) ==
    [f \in Fields |->
        IF f = "status_general" THEN get(data, f, STATUS_OPTIONS[1])
        ELSE IF f = "prioridad" THEN get(data, f, PRIORITY_OPTIONS[2])
        ELSE IF f \in DayFields THEN get(data, f, "Día")
        ELSE IF f \in StatusFields THEN get(data, f, "PENDIENTE")
        ELSE get(data, f, "")]

\* export_pdf: the values it reads from data, from a day and from a row
export_reads(data) ==
    [f \in Fields |->
        IF f \in DayFields THEN get(data, f, "Día")
        ELSE IF f \in StatusFields THEN get(data, f, "PENDIENTE")
        ELSE get(data, f, "")]

\* a value a field can have in the input record
GivenValue(f) ==
    IF f = "status_general" THEN STATUS_OPTIONS[3]
    ELSE IF f = "prioridad" THEN PRIORITY_OPTIONS[4]
    ELSE IF f \in StatusFields THEN "COMPLETADO"
    ELSE "x"

\* the input records: every field present or absent
Records == {[f \in Fields |-> IF f \in S THEN GivenValue(f) ELSE Absent] : S \in SUBSET Fields}

InitRecord ==
    /\ \/ rec_ctx = "new" /\ rec_in = NoRecord
       \/ rec_ctx \in {"open", "export"} /\ rec_in \in Records
    /\ rec_out = NoRecord
    /\ rec_pc = "call"
    /\ WrapIdle /\ RunsIdle /\ RowIdle /\ DrawIdle /\ FontsIdle /\ SaveIdle
    /\ InputsIdle /\ ExportIdle

\* new_report and load_from_data
ReadNew ==
    /\ rec_pc = "call" /\ rec_ctx = "new"
    /\ rec_out' = load_from_data(new_report)
    /\ rec_pc' = "ret"
    /\ UNCHANGED <<rec_ctx, rec_in>>
    /\ UNCHANGED <<wl_vars, rl_vars, rh_vars, ds_vars, font_vars, save_vars, in_vars, ex_vars>>

\* open_report and load_from_data
ReadOpened ==
    /\ rec_pc = "call" /\ rec_ctx = "open"
    /\ rec_out' = load_from_data(open_report(rec_in))
    /\ rec_pc' = "ret"
    /\ UNCHANGED <<rec_ctx, rec_in>>
    /\ UNCHANGED <<wl_vars, rl_vars, rh_vars, ds_vars, font_vars, save_vars, in_vars, ex_vars>>

\* export_pdf reading its argument
ReadForExport ==
    /\ rec_pc = "call" /\ rec_ctx = "export"
    /\ rec_out' = export_reads(rec_in)
    /\ rec_pc' = "ret"
    /\ UNCHANGED <<rec_ctx, rec_in>>
    /\ UNCHANGED <<wl_vars, rl_vars, rh_vars, ds_vars, font_vars, save_vars, in_vars, ex_vars>>

NextRecord == ReadNew \/ ReadOpened \/ ReadForExport

SpecRecord == InitRecord /\ [][NextRecord]_vars

\* the default the claim names for a field
ClaimedDefault(f) ==
    IF f = "status_general" THEN STATUS_OPTIONS[1]
    ELSE IF f = "prioridad" THEN PRIORITY_OPTIONS[1]
    ELSE IF f \in StatusFields THEN "PENDIENTE"
    ELSE ""

\* the default the program uses for a field
ActualDefault(ctx, f) ==
    IF f = "status_general" THEN (IF ctx = "export" THEN "" ELSE "WORK IN PROGRESS")
    ELSE IF f = "prioridad" THEN (IF ctx = "export" THEN "" ELSE "MEDIA")
    ELSE IF f \in StatusFields THEN "PENDIENTE"
    ELSE IF f = "nombre" THEN (IF ctx = "new" THEN "Día 1" ELSE "Día")
    ELSE ""

\* C24 as stated: a field absent from the input record is read as the empty
\* string (text field), PENDIENTE (status field of a row) or the first option
\* of its enum (general status, priority), in a new report, a loaded report
\* and the export.
AbsentFieldsReadClaimedDefault ==
    rec_pc = "ret" =>
        \A f \in Fields : rec_in[f] = Absent => rec_out[f] = ClaimedDefault(f)

\* C24 amended: a field present in the input record is read with its value; an
\* absent one is read as the empty string (text field of the report or of a
\* row), "Día" (day name; "Día 1" in a new report), PENDIENTE (status field of
\* a row); the general status as its first option and the priority as its
\* second option, MEDIA, in a new or loaded report, and both as the empty
\* string by the export.
AbsentFieldsReadActualDefault ==
    rec_pc = "ret" =>
        \A f \in Fields :
            rec_out[f] = IF rec_in[f] = Absent THEN ActualDefault(rec_ctx, f) ELSE rec_in[f]

\* a report file without priority and without the status fields of its row
\* was opened: the priority reads MEDIA
DefaultsWitness ==
    /\ rec_pc = "ret" /\ rec_ctx = "open"
    /\ rec_in["prioridad"] = Absent /\ rec_in["status_general"] # Absent
    /\ rec_in["backup_b"] = Absent /\ rec_in["tarjeta"] = Absent
    /\ rec_out["prioridad"] = "MEDIA" /\ rec_out["backup_b"] = "PENDIENTE"
    /\ rec_out["tarjeta"] = ""

\* ------------------------------------------------------------------------
\* register_unicode_fonts and the font selection of render_report_pages
\* ------------------------------------------------------------------------
\* the four fonts of the extended family, in the order they are registered
DJVFonts == <<"DJV", "DJV-B", "DJV-I", "DJV-BI">>

DJVNames == {DJVFonts[k] : k \in 1..Len(DJVFonts)}

\* registerFont of the first k fonts of the family
register_first(reg, k) == reg \cup {DJVFonts[j] : j \in 1..k}

\* register_unicode_fonts, with registerFont raising after fail_at fonts
\* (fail_at = 4: no registerFont raises); the result and the registered names
register_unicode_fonts(files, reg, fail_at) ==
    IF files = DJVNames
    THEN IF "DJV" \notin reg
         THEN IF fail_at < Len(DJVFonts)
              THEN [ret |-> "False", registered |-> register_first(reg, fail_at)]
              ELSE [ret |-> "True", registered |-> register_first(reg, Len(DJVFonts))]
         ELSE [ret |-> "True", registered |-> reg]
    ELSE [ret |-> "False", registered |-> reg]

\* font_for_style with FONT_N .. FONT_BI chosen by has_unicode
font_for_style(has_unicode, st) ==
    IF has_unicode = "True"
    THEN (IF st = "N" THEN "DJV" ELSE IF st = "B" THEN "DJV-B"
          ELSE IF st = "I" THEN "DJV-I" ELSE "DJV-BI")
    ELSE (IF st = "N" THEN "Helvetica" ELSE IF st = "B" THEN "Helvetica-Bold"
          ELSE IF st = "I" THEN "Helvetica-Oblique" ELSE "Helvetica-BoldOblique")

InitFonts ==
    /\ font_files \in SUBSET DJVNames
    /\ registered = {} /\ font_ret = "none" /\ font_calls = 0 /\ font_sel = "none"
    /\ WrapIdle /\ RunsIdle /\ RowIdle /\ DrawIdle /\ RecordIdle /\ SaveIdle
    /\ InputsIdle /\ ExportIdle

\* render_report_pages calls register_unicode_fonts
CallRegisterFonts ==
    /\ font_calls < MaxCalls
    /\ \E fail_at \in 0..Len(DJVFonts) :
          LET r == register_unicode_fonts(font_files, registered, fail_at)
          IN  /\ font_ret' = r.ret
              /\ registered' = r.registered
    /\ font_calls' = font_calls + 1
    /\ font_sel' = "none"
    /\ UNCHANGED font_files
    /\ UNCHANGED <<wl_vars, rl_vars, rh_vars, ds_vars, rec_vars, save_vars, in_vars, ex_vars>>

\* draw_rich_line selects the font of a run
SelectFont ==
    /\ font_ret # "none"
    /\ \E st \in {"N", "B", "I", "BI"} : font_sel' = font_for_style(font_ret, st)
    /\ UNCHANGED <<font_files, registered, font_ret, font_calls>>
    /\ UNCHANGED <<wl_vars, rl_vars, rh_vars, ds_vars, rec_vars, save_vars, in_vars, ex_vars>>

NextFonts == CallRegisterFonts \/ SelectFont

SpecFonts == InitFonts /\ [][NextFonts]_vars

\* C28 as stated: after any sequence of calls, also with a registerFont that
\* failed partway, a call returns True only if all four fonts are registered,
\* so the rich-text section never selects a font of the extended family that
\* is not registered.
TrueOnlyWhenAllRegistered ==
    /\ font_ret = "True" => registered = DJVNames
    /\ font_sel \in DJVNames => font_sel \in registered

\* ------------------------------------------------------------------------
\* save_report and on_save
\* ------------------------------------------------------------------------
\* the paths the save dialog can return; "" when it is cancelled
Paths == {"p1", "p2"}

\* save_report(data): dialog is the answer of asksaveasfilename (asked only
\* without a current_path), write_ok tells whether writing the file succeeds;
\* the result, current_path afterwards, and the path written
save_report(path0, dialog, write_ok) ==
    IF path0 = "None" /\ dialog = ""
    THEN [ret |-> "None", current_path |-> path0, wrote |-> {}, shown |-> <<>>]
    ELSE LET path == IF path0 = "None" THEN dialog ELSE path0
         IN  IF write_ok
             THEN [ret |-> path, current_path |-> path, wrote |-> {path}, shown |-> <<>>]
             ELSE [ret |-> "None", current_path |-> path, wrote |-> {},
                   shown |-> <<"Error">>]

InitSave ==
    /\ SaveIdle
    /\ WrapIdle /\ RunsIdle /\ RowIdle /\ DrawIdle /\ RecordIdle /\ FontsIdle
    /\ InputsIdle /\ ExportIdle

\* the user edits the report in the editor
Edit ==
    /\ edited < MaxCalls
    /\ edited' = edited + 1
    /\ UNCHANGED <<current_path, report_data, written, save_ret, prev_path, prev_data>>
    /\ UNCHANGED <<wl_vars, rl_vars, rh_vars, ds_vars, rec_vars, font_vars, in_vars, ex_vars>>

\* the part of the state of export_pdf that saving leaves alone
ex_but_notice == <<pc, d, page_idx, row_i, start_off, page_num, pages, saved>>

\* on_save when collect_data raises: a message box, nothing else
OnSaveInvalid ==
    /\ Len(notice) < MaxCalls
    /\ notice' = Append(notice, "Fecha inválida")
    /\ UNCHANGED save_vars
    /\ UNCHANGED <<wl_vars, rl_vars, rh_vars, ds_vars, rec_vars, font_vars, in_vars,
                   ex_but_notice>>

\* on_save: collect_data, save_report, and report_data = data when a path came back
OnSave ==
    /\ Len(notice) < MaxCalls
    /\ \E dialog \in Paths \cup {""}, write_ok \in BOOLEAN :
          LET r == save_report(current_path, dialog, write_ok)
          IN  /\ save_ret' = r.ret
              /\ current_path' = r.current_path
              /\ written' = written \cup r.wrote
              /\ report_data' = IF r.ret # "None" THEN edited ELSE report_data
              /\ notice' = IF r.ret # "None" THEN Append(notice, "Guardado")
                            ELSE notice \o r.shown
    /\ prev_path' = current_path
    /\ prev_data' = report_data
    /\ UNCHANGED edited
    /\ UNCHANGED <<wl_vars, rl_vars, rh_vars, ds_vars, rec_vars, font_vars, in_vars,
                   ex_but_notice>>

\* new_report: current_path = None and the default report
NewReport ==
    /\ current_path # "None"
    /\ current_path' = "None"
    /\ report_data' = 0
    /\ save_ret' = "idle"
    /\ prev_path' = "None" /\ prev_data' = 0
    /\ UNCHANGED <<edited, written>>
    /\ UNCHANGED <<wl_vars, rl_vars, rh_vars, ds_vars, rec_vars, font_vars, in_vars, ex_vars>>

NextSave == Edit \/ OnSaveInvalid \/ OnSave \/ NewReport

SpecSave == InitSave /\ [][NextSave]_vars

\* C29 as stated: when save_report returned None (dialog cancelled or writing
\* raised), current_path has the value it had before the call and on_save did
\* not replace report_data; current_path is a path only when the report was
\* written to that path.
FailedSaveChangesNothing ==
    /\ save_ret = "None" => (current_path = prev_path /\ report_data = prev_data)
    /\ current_path # "None" => current_path \in written
====
